---- MODULE Spec2Model ----
(***************************************************************************)
(* Model of Checker.py (Urban Cordon Checker): the coordinate parser, the  *)
(* angular ring builder, the polygon construction and the Streamlit script *)
(* run that builds the two regions and answers the containment query.      *)
(*                                                                         *)
(* Numbers.  Python floats are modelled as exact fixed-point integers in   *)
(* units of 1/Scale of a degree (Scale = 36000, a tenth of an arc-second), *)
(* truncated toward zero.  Every text of the model has at most one         *)
(* fractional digit of seconds or of degrees, so no value is truncated.    *)
(* Text.  A text is a sequence of one-character strings; the degree sign   *)
(* is written "deg" and the double quote "dq".                             *)
(***************************************************************************)
EXTENDS Integers, Sequences, FiniteSets, TLC

VARIABLES
    \* ---- the Streamlit script run (Spec)
    points_file,    \* content of points.csv / points.xlsx on disk
    pc,             \* position of the script run
    pts_df,         \* df_to_latlon(df_raw), line 162
    sub_poly, sub_ring, main_poly, main_ring,   \* lines 174-175
    search_result,  \* st.session_state.search_result
    input_coords,   \* st.session_state.input_coords (the text widget's value)
    user_input,     \* line 202; the argument of the parser in SpecParse
    parsed,         \* line 205
    inside,         \* line 216
    warning,        \* the st.warning of the button handler, lines 207 and 212
    first_registry, \* history: the regions the first evaluated query was tested against
    \* ---- build_safe_polygon and its helpers applied to one argument (SpecRing)
    points,         \* the argument latlon_points
    ordered,        \* line 98
    ring,           \* line 99 (or close_ring applied to points)
    ring2,          \* close_ring applied to ring
    poly,           \* the first component of build_safe_polygon's result
    fpc             \* position within SpecRing / SpecParse

vars == <<points_file, pc, pts_df, sub_poly, sub_ring, main_poly, main_ring,
          search_result, input_coords, user_input, parsed, inside, warning,
          first_registry, points, ordered, ring, ring2, poly, fpc>>

scriptVars == <<points_file, pc, pts_df, sub_poly, sub_ring, main_poly, main_ring,
                search_result, input_coords, inside, warning, first_registry>>
ringVars == <<points, ordered, ring, ring2, poly>>

None == "None"          \* Python's None
Unset == "unset"        \* a name not yet bound in this run
Raised == "raised"      \* the call raised an exception

\* ------------------------------------------------------------------ numbers

MinDiv == 60
SecDiv == 3600
Scale == SecDiv * 10

LatMax == 90
LonMax == 180

Abs(x) == IF x < 0 THEN -x ELSE x

RECURSIVE Pow10(_)
Pow10(k) == IF k = 0 THEN 1 ELSE 10 * Pow10(k - 1)

\* ------------------------------------------------------------------ text

DigitChars == <<"0", "1", "2", "3", "4", "5", "6", "7", "8", "9">>
IsDigit(c) == \E i \in 1..10 : DigitChars[i] = c
DigitVal(c) == (CHOOSE i \in 1..10 : DigitChars[i] = c) - 1
Whitespace == {" "}

\* a natural number in decimal digits
RECURSIVE FormatNat(_)
FormatNat(n) ==
    IF n < 10 THEN <<DigitChars[n + 1]>>
    ELSE FormatNat(n \div 10) \o <<DigitChars[(n % 10) + 1]>>

AllDigits(s) == \A i \in 1..Len(s) : IsDigit(s[i])

\* Magnitudes of IntCap degrees and above are all represented by IntCap (the
\* program compares a value with 90, 180 and the regions' coordinates only),
\* and digits after the FracKeep-th fractional digit are dropped.
IntCap == Pow10(4)
FracKeep == 2 + 2

Min(a, b) == IF a <= b THEN a ELSE b

RECURSIVE DigitsValue(_)
DigitsValue(s) ==
    IF s = <<>> THEN 0
    ELSE LET hi == DigitsValue(SubSeq(s, 1, Len(s) - 1))
         IN  IF hi >= IntCap THEN IntCap ELSE Min(IntCap, 10 * hi + DigitVal(s[Len(s)]))

\* the magnitude of <ip>.<fp> in units of 1/Scale
Magnitude(ip, fp) ==
    LET kept == SubSeq(fp, 1, Min(FracKeep, Len(fp)))
    IN  IF DigitsValue(ip) >= IntCap THEN IntCap * Scale
        ELSE DigitsValue(ip) * Scale + (DigitsValue(kept) * Scale) \div Pow10(Len(kept))

\* float(tok) for the texts of the model: [sign] digits [. digits] with at
\* least one digit.  [ok |-> FALSE] is ValueError.
float(tok) ==
    LET body == IF tok # <<>> /\ tok[1] \in {"-", "+"} THEN Tail(tok) ELSE tok
        neg == tok # <<>> /\ tok[1] = "-"
        dots == {i \in 1..Len(body) : body[i] = "."}
        dot == IF dots = {} THEN Len(body) + 1 ELSE CHOOSE i \in dots : \A j \in dots : i <= j
        ip == SubSeq(body, 1, dot - 1)
        fp == SubSeq(body, dot + 1, Len(body))
    IN  IF AllDigits(ip) /\ AllDigits(fp) /\ Len(ip) + Len(fp) >= 1
        THEN [ok |-> TRUE, val |-> IF neg THEN -Magnitude(ip, fp) ELSE Magnitude(ip, fp)]
        ELSE [ok |-> FALSE, val |-> 0]

\* user_input.replace(",", " ")
ReplaceCommas(s) == [i \in 1..Len(s) |-> IF s[i] = "," THEN " " ELSE s[i]]

\* str.split(): the maximal runs of non-whitespace characters
RECURSIVE SplitFrom(_, _, _, _)
SplitFrom(s, i, cur, acc) ==
    IF i > Len(s) THEN (IF cur = <<>> THEN acc ELSE Append(acc, cur))
    ELSE IF s[i] \in Whitespace
         THEN SplitFrom(s, i + 1, <<>>, IF cur = <<>> THEN acc ELSE Append(acc, cur))
         ELSE SplitFrom(s, i + 1, Append(cur, s[i]), acc)
split(s) == SplitFrom(s, 1, <<>>, <<>>)

\* the end of the maximal run of digits that starts at i (i - 1 when s[i] is
\* no digit)
RECURSIVE DigitRunEnd(_, _)
DigitRunEnd(s, i) ==
    IF i <= Len(s) /\ IsDigit(s[i]) THEN DigitRunEnd(s, i + 1) ELSE i - 1

CharAt(s, i) == IF i >= 1 /\ i <= Len(s) THEN s[i] ELSE "EOF"

Directions == {"N", "S", "E", "W"}

\* one match of (\d+)[deg](\d+)['](\d+\.?\d*)["]([NSEW]) starting at i
MatchAt(s, i) ==
    LET e1 == DigitRunEnd(s, i)
        e2 == DigitRunEnd(s, e1 + 2)
        e3 == DigitRunEnd(s, e2 + 2)
        e4 == IF CharAt(s, e3 + 1) = "." THEN DigitRunEnd(s, e3 + 2) ELSE e3
    IN  IF /\ e1 >= i
           /\ CharAt(s, e1 + 1) = "deg"
           /\ e2 >= e1 + 2
           /\ CharAt(s, e2 + 1) = "'"
           /\ e3 >= e2 + 2
           /\ CharAt(s, e4 + 1) = "dq"
           /\ CharAt(s, e4 + 2) \in Directions
        THEN [ok |-> TRUE, end |-> e4 + 2,
              part |-> [deg |-> SubSeq(s, i, e1), m |-> SubSeq(s, e1 + 2, e2),
                        s |-> SubSeq(s, e2 + 2, e4), d |-> s[e4 + 2]]]
        ELSE [ok |-> FALSE, end |-> i, part |-> <<>>]

\* re.findall: the non-overlapping matches, leftmost first
RECURSIVE FindAllFrom(_, _, _)
FindAllFrom(s, i, acc) ==
    IF i > Len(s) THEN acc
    ELSE LET mt == MatchAt(s, i)
         IN  IF mt.ok THEN FindAllFrom(s, mt.end + 1, Append(acc, mt.part))
             ELSE FindAllFrom(s, i + 1, acc)
findall(s) == FindAllFrom(s, 1, <<>>)

dms_to_decimal(deg, minute, sec, sign) ==
    sign * (deg * Scale + (minute * Scale) \div MinDiv + (sec * Scale) \div SecDiv)

\* the local function one(part) of the DMS branch
oneMutSouthOnly(part) ==
    LET val == float(part.deg).val + float(part.m).val \div MinDiv
                   + float(part.s).val \div SecDiv
    IN  IF part.d \in {"S"} THEN -val ELSE val

one(part) ==
    LET val == float(part.deg).val + float(part.m).val \div MinDiv
                   + float(part.s).val \div SecDiv
    IN  IF part.d \in {"S", "W"} THEN -val ELSE val

\* a parser result: a (lat, lon) pair or None
Pair(lat, lon) == [st |-> "pair", lat |-> lat, lon |-> lon]
NonePair == [st |-> None, lat |-> 0, lon |-> 0]
UnsetPair == [st |-> Unset, lat |-> 0, lon |-> 0]

\* the decimal branch, lines 46-53: a pair, or None when the branch falls
\* through (fewer than two tokens, or float() raised and was swallowed)
DecimalBranchMutExactlyTwo(input) ==
    LET clean == split(ReplaceCommas(input))
    IN  IF Len(clean) = 2 /\ float(clean[1]).ok /\ float(clean[2]).ok
        THEN Pair(float(clean[1]).val, float(clean[2]).val)
        ELSE NonePair

DecimalBranch(input) ==
    LET clean == split(ReplaceCommas(input))
    IN  IF Len(clean) >= 2 /\ float(clean[1]).ok /\ float(clean[2]).ok
        THEN Pair(float(clean[1]).val, float(clean[2]).val)
        ELSE NonePair

\* the DMS branch, lines 56-69
DmsBranch(input) ==
    LET parts == findall(input)
    IN  IF Len(parts) >= 2 THEN Pair(one(parts[1]), one(parts[2])) ELSE NonePair

parse_decimal_or_dms_text(input) ==
    IF input = <<>> THEN NonePair
    ELSE IF DecimalBranch(input) # NonePair THEN DecimalBranch(input)
    ELSE DmsBranch(input)

\* ------------------------------------------------------- ring building
\* A point is <<lat, lon>>.  Angles are compared exactly: numpy's rounding of
\* the mean and of arctan2 is not modelled.

Lat(p) == p[1]
Lon(p) == p[2]

RECURSIVE SumLat(_)
SumLat(pts) == IF pts = <<>> THEN 0 ELSE Lat(pts[1]) + SumLat(Tail(pts))
RECURSIVE SumLon(_)
SumLon(pts) == IF pts = <<>> THEN 0 ELSE Lon(pts[1]) + SumLon(Tail(pts))

\* (lat - center[0], lon - center[1]) scaled by the number of points, so
\* that it stays an integer vector <<dlat, dlon>> of the same direction
FromCenter(pts, p) ==
    <<Len(pts) * Lat(p) - SumLat(pts), Len(pts) * Lon(p) - SumLon(pts)>>

FromOrigin(pts, p) == <<Lat(p), Lon(p)>>

\* the band of arctan2(y, x) for v = <<y, x>>:
\* 0 for (-pi, 0), 1 for 0 (arctan2(0, 0) = 0 too), 2 for (0, pi), 3 for pi
AngleBand(v) ==
    IF v[1] < 0 THEN 0
    ELSE IF v[1] > 0 THEN 2
    ELSE IF v[2] >= 0 THEN 1 ELSE 3

\* arctan2(u) < arctan2(v)
AngleLess(u, v) ==
    \/ AngleBand(u) < AngleBand(v)
    \/ /\ AngleBand(u) = AngleBand(v)
       /\ AngleBand(u) \in {0, 2}
       /\ u[2] * v[1] - u[1] * v[2] > 0

\* np.argsort(angles) with the default kind ("quicksort", which numpy
\* documents as not stable): every order of the indices that makes the
\* angles non-decreasing.  rest holds the indices not yet placed; the next
\* index is any one of them whose angle is smallest.
RECURSIVE ArgsortFrom(_, _)
ArgsortFrom(angles, rest) ==
    IF rest = {} THEN {<<>>}
    ELSE UNION { {<<i>> \o t : t \in ArgsortFrom(angles, rest \ {i})} :
                   i \in {m \in rest : \A j \in rest : ~AngleLess(angles[j], angles[m])} }
argsort(angles) == ArgsortFrom(angles, DOMAIN angles)

\* order_points_by_angle: the orderings it may return; the call raises
\* IndexError (pts[:,0] of a one-dimensional array) when there is no point
order_points_by_angle_MutAboutOrigin(latlon_points) ==
    LET angles == [i \in 1..Len(latlon_points) |->
                      FromOrigin(latlon_points, latlon_points[i])]
    IN  {[i \in 1..Len(latlon_points) |-> latlon_points[q[i]]] : q \in argsort(angles)}

order_points_by_angle(latlon_points) ==
    LET angles == [i \in 1..Len(latlon_points) |->
                      FromCenter(latlon_points, latlon_points[i])]
    IN  {[i \in 1..Len(latlon_points) |-> latlon_points[q[i]]] : q \in argsort(angles)}

order_raises(latlon_points) == latlon_points = <<>>

close_ring_MutAlwaysAppend(pts) ==
    IF pts # <<>> THEN Append(pts, pts[1]) ELSE pts

close_ring(pts) ==
    IF pts # <<>> /\ pts[1] # pts[Len(pts)] THEN Append(pts, pts[1]) ELSE pts

\* ------------------------------------------------------------ geometry
\* Shapely works on (x, y) = (lon, lat).

\* twice the signed area of the triangle o, a, b
Cross(o, a, b) ==
    (Lon(a) - Lon(o)) * (Lat(b) - Lat(o)) - (Lat(a) - Lat(o)) * (Lon(b) - Lon(o))

Between(x, a, b) == (a <= x /\ x <= b) \/ (b <= x /\ x <= a)

\* p lies on the closed segment a-b
OnSegment(p, a, b) ==
    /\ Cross(a, b, p) = 0
    /\ Between(Lat(p), Lat(a), Lat(b))
    /\ Between(Lon(p), Lon(a), Lon(b))

Sign(x) == IF x > 0 THEN 1 ELSE IF x < 0 THEN -1 ELSE 0

\* the closed segments a-b and c-d share a point
SegmentsMeet(a, b, c, d) ==
    \/ /\ Sign(Cross(a, b, c)) * Sign(Cross(a, b, d)) < 0
       /\ Sign(Cross(c, d, a)) * Sign(Cross(c, d, b)) < 0
    \/ OnSegment(c, a, b) \/ OnSegment(d, a, b)
    \/ OnSegment(a, c, d) \/ OnSegment(b, c, d)

\* the ring without its repeated consecutive points
RECURSIVE Dedup(_)
Dedup(r) ==
    IF Len(r) <= 1 THEN r
    ELSE IF r[1] = r[2] THEN Dedup(Tail(r))
    ELSE <<r[1]>> \o Dedup(Tail(r))

AllColinear(r) == \A i, j, k \in 1..Len(r) : Cross(r[i], r[j], r[k]) = 0

\* Polygon.is_valid for a closed shell without holes: at least three
\* distinct vertices, and edges that meet only at the shared end of
\* consecutive edges (repeated points are allowed)
is_valid(r) ==
    LET d == Dedup(r)
        n == Len(d) - 1            \* edges of the closed ring d
        A(i) == d[i]
        B(i) == d[i + 1]
        Adjacent(i, j) == j = i + 1 \/ (i = 1 /\ j = n)
        Shared(i, j) == IF j = i + 1 THEN B(i) ELSE A(i)
        Far(i, j) == IF j = i + 1 THEN <<A(i), B(j)>> ELSE <<B(i), A(j)>>
    IN  /\ n >= 3
        /\ d[1] = d[Len(d)]
        /\ \A i, j \in 1..n :
              i < j =>
                IF Adjacent(i, j)
                THEN ~( /\ Cross(Shared(i, j), Far(i, j)[1], Far(i, j)[2]) = 0
                        /\ \/ OnSegment(Far(i, j)[1], Shared(i, j), Far(i, j)[2])
                           \/ OnSegment(Far(i, j)[2], Shared(i, j), Far(i, j)[1]) )
                ELSE ~SegmentsMeet(A(i), B(i), A(j), B(j))

\* a polygon value: None, a raised exception, or a region over its ring;
\* repaired marks the result of buffer(0)
NoPoly == [st |-> None, ring |-> <<>>, repaired |-> FALSE]
UnsetPoly == [st |-> Unset, ring |-> <<>>, repaired |-> FALSE]
RaisedPoly == [st |-> Raised, ring |-> <<>>, repaired |-> FALSE]
Region(r, rep) == [st |-> "region", ring |-> r, repaired |-> rep]

\* Polygon(coords): ValueError for fewer than three coordinates (a ring of
\* three coordinates is closed by shapely itself)
PolygonRaises(r) == Len(r) < 3

\* lines 101-112 for one ordering; buffer(0) of a ring without extent is the
\* empty polygon, of any other invalid ring a region over the same ring
PolyOf(r) ==
    IF PolygonRaises(r) THEN RaisedPoly
    ELSE IF is_valid(r) THEN Region(r, FALSE)
    ELSE IF AllColinear(r) THEN NoPoly
    ELSE Region(r, TRUE)

\* build_safe_polygon: the results (poly, ordered) it may return
build_safe_polygon(latlon_points) ==
    IF order_raises(latlon_points) THEN {[poly |-> RaisedPoly, ring |-> <<>>]}
    ELSE {[poly |-> PolyOf(close_ring(o)),
           ring |-> IF PolygonRaises(close_ring(o)) THEN <<>> ELSE close_ring(o)] :
              o \in order_points_by_angle(latlon_points)}

\* the winding number of the closed ring r around p (p not on r)
RECURSIVE Winding(_, _, _)
Winding(r, p, i) ==
    IF i >= Len(r) THEN 0
    ELSE LET a == r[i]
             b == r[i + 1]
             w == IF Lat(a) <= Lat(p) /\ Lat(b) > Lat(p) /\ Cross(a, b, p) > 0 THEN 1
                  ELSE IF Lat(a) > Lat(p) /\ Lat(b) <= Lat(p) /\ Cross(a, b, p) < 0 THEN -1
                  ELSE 0
         IN  w + Winding(r, p, i + 1)

OnBoundary(r, p) == \E i \in 1..(Len(r) - 1) : OnSegment(p, r[i], r[i + 1])
StrictlyInside(r, p) == ~OnBoundary(r, p) /\ Winding(r, p, 1) # 0

\* poly.contains(p) and poly.covers(p)
contains(region, p) == StrictlyInside(region.ring, p)
covers(region, p) == OnBoundary(region.ring, p) \/ StrictlyInside(region.ring, p)

\* ------------------------------------------------------- the script run
\* One run of Checker.py under Streamlit: every interaction (a text edit, a
\* button press, a geolocation update) reruns the whole script in a fresh
\* namespace; only st.session_state survives from run to run.

\* a stored query result, None, or the key missing from the session state
Result(lat, lon, b) == [st |-> "result", lat |-> lat, lon |-> lon, is_inside |-> b]
NoneResult == [st |-> None, lat |-> 0, lon |-> 0, is_inside |-> FALSE]
AbsentResult == [st |-> "absent", lat |-> 0, lon |-> 0, is_inside |-> FALSE]

\* a boolean local, bound or not
Bool(b) == [set |-> TRUE, val |-> b]
UnsetBool == [set |-> FALSE, val |-> FALSE]

Registry(sp, mp) == [set |-> TRUE, sub |-> sp, main |-> mp]
NoRegistry == [set |-> FALSE, sub |-> UnsetPoly, main |-> UnsetPoly]

\* a points table on disk: whether it has the required columns, and its rows
Table(cols, rows) == [exists |-> TRUE, cols |-> cols, rows |-> rows]
Absent == [exists |-> FALSE, cols |-> FALSE, rows |-> <<>>]
Disk(csv, xlsx) == [csv |-> csv, xlsx |-> xlsx]

\* load_points_file: points.csv when it exists, else points.xlsx, else None
load_points_file(disk) ==
    IF disk.csv.exists THEN disk.csv
    ELSE IF disk.xlsx.exists THEN disk.xlsx
    ELSE Absent

\* sort_values("Point"): every order of the rows with non-decreasing Point
RECURSIVE SortRowsFrom(_, _)
SortRowsFrom(rows, rest) ==
    IF rest = {} THEN {<<>>}
    ELSE UNION { {<<rows[i]>> \o t : t \in SortRowsFrom(rows, rest \ {i})} :
                   i \in {m \in rest : \A j \in rest : rows[m].Point <= rows[j].Point} }

\* df_to_latlon for a table that has the required columns
df_to_latlon(df) ==
    SortRowsFrom([i \in 1..Len(df.rows) |->
                     [Point |-> df.rows[i].Point,
                      lat |-> dms_to_decimal(df.rows[i].North_D, df.rows[i].North_M,
                                             df.rows[i].North_S, 1),
                      lon |-> dms_to_decimal(df.rows[i].East_D, df.rows[i].East_M,
                                             df.rows[i].East_S, 1)]],
                 1..Len(df.rows))

SubFirst == 1
SubLast == 4
between(x, lo, hi) == lo <= x /\ x <= hi

\* lines 168-172: the (lat, lon) points of the rows that pass keep
RECURSIVE PointsWhere(_, _)
PointsWhere(df, insub) ==
    IF df = <<>> THEN <<>>
    ELSE (IF between(df[1].Point, SubFirst, SubLast) = insub
          THEN <<<<df[1].lat, df[1].lon>>>> ELSE <<>>)
         \o PointsWhere(Tail(df), insub)
sub_points(df) == PointsWhere(df, TRUE)
main_points(df) == PointsWhere(df, FALSE)

\* line 177
RegistryFailed_MutBoth(sp, mp) == sp.st = None /\ mp.st = None
RegistryFailed(sp, mp) == sp.st = None \/ mp.st = None

\* line 211
InRange_MutLatOnly(lat, lon) == -LatMax * Scale <= lat /\ lat <= LatMax * Scale
InRange(lat, lon) ==
    /\ -LatMax * Scale <= lat /\ lat <= LatMax * Scale
    /\ -LonMax * Scale <= lon /\ lon <= LonMax * Scale

\* line 216
ContainmentTest_MutStrict(sp, mp, p) == contains(sp, p) \/ contains(mp, p)
ContainmentTest(sp, mp, p) == covers(sp, p) \/ covers(mp, p)

\* f"{current_lat}, {current_lon}" for a coordinate given in 1/10000 degree
\* (coordinates whose fourth decimal is not 0, which repr prints in full)
RECURSIVE PadNat(_, _)
PadNat(n, width) ==
    IF width = 0 THEN <<>> ELSE PadNat(n \div 10, width - 1) \o <<DigitChars[(n % 10) + 1]>>
FormatCoord(v) ==
    (IF v < 0 THEN <<"-">> ELSE <<>>) \o FormatNat(Abs(v) \div Pow10(4))
        \o <<".">> \o PadNat(Abs(v) % Pow10(4), 4)
FormatLocation(loc) == FormatCoord(loc[1]) \o <<",", " ">> \o FormatCoord(loc[2])

\* ------------------------------------------------------------ SpecParse
\* The parser applied to one text.  A text is the concatenation of at most
\* MaxFrags fragments: numbers, separators, junk, and DMS groups formatted
\* from their components.

MaxFrags == 4

\* a DMS group: degrees, minutes, tenths of a second, direction
DmsGroups ==
    { [deg |-> 30, m |-> 43, t |-> 383, d |-> "N"],
      [deg |-> 31, m |-> 17, t |-> 46, d |-> "E"],
      [deg |-> 1, m |-> 30, t |-> 0, d |-> "S"],
      [deg |-> 91, m |-> 0, t |-> 5, d |-> "W"] }

\* the group as text: whole seconds without a point, else with one decimal
FormatDms(g) ==
    FormatNat(g.deg) \o <<"deg">> \o FormatNat(g.m) \o <<"'">>
        \o FormatNat(g.t \div 10)
        \o (IF g.t % 10 = 0 THEN <<>> ELSE <<".">> \o FormatNat(g.t % 10))
        \o <<"dq", g.d>>

Frags ==
    { <<"1", ",">>, <<"-", "2", " ">>, <<"1", ".", "5", ",">>, <<"7">>, <<" ">>,
      <<"3", "deg", "4", "'", "5", "dq">> }
    \cup {FormatDms(g) : g \in DmsGroups}

RECURSIVE Texts(_)
Texts(k) ==
    IF k = 0 THEN {<<>>}
    ELSE LET shorter == Texts(k - 1)
         IN  shorter \cup {t \o f : t \in shorter, f \in Frags}

ParseInit ==
    /\ user_input \in Texts(MaxFrags)
    /\ parsed = UnsetPair
    /\ fpc = "input"
    /\ points_file = <<>> /\ pc = "off" /\ pts_df = <<>>
    /\ sub_poly = UnsetPoly /\ sub_ring = <<>> /\ main_poly = UnsetPoly /\ main_ring = <<>>
    /\ search_result = AbsentResult /\ input_coords = <<>> /\ inside = UnsetBool
    /\ warning = None /\ first_registry = NoRegistry
    /\ points = <<>> /\ ordered = <<>> /\ ring = <<>> /\ ring2 = <<>> /\ poly = UnsetPoly

Parse ==
    /\ fpc = "input"
    /\ parsed' = parse_decimal_or_dms_text(user_input)
    /\ fpc' = "parsed"
    /\ UNCHANGED <<scriptVars, ringVars, user_input>>

ParseNext == Parse

SpecParse == ParseInit /\ [][ParseNext]_vars

\* ---- C5, C6: the parser's grammars

IsSep(c) == c \in {",", " "}
TokenStarts(s) == {i \in 1..Len(s) : ~IsSep(s[i]) /\ (i = 1 \/ IsSep(s[i - 1]))}
TokenAt(s, i) ==
    LET ends == {j \in i..Len(s) : \A k \in i..j : ~IsSep(s[k])}
    IN  SubSeq(s, i, CHOOSE j \in ends : \A k \in ends : k <= j)
FirstStart(s) == CHOOSE i \in TokenStarts(s) : \A j \in TokenStarts(s) : i <= j
SecondStart(s) ==
    LET first == FirstStart(s)
    IN  CHOOSE i \in TokenStarts(s) \ {first} : \A j \in TokenStarts(s) \ {first} : i <= j
TwoNumericTokens(s) ==
    /\ Cardinality(TokenStarts(s)) >= 2
    /\ float(TokenAt(s, FirstStart(s))).ok
    /\ float(TokenAt(s, SecondStart(s))).ok

\* degrees + minutes/60 + seconds/3600 of a match, negated for S and W
MatchValue(part) ==
    LET v == DigitsValue(part.deg) * Scale + (DigitsValue(part.m) * Scale) \div MinDiv
                 + float(part.s).val \div SecDiv
    IN  IF part.d = "S" \/ part.d = "W" THEN 0 - v ELSE v

\* C5: the decimal grammar is tried first and returns the first two tokens
\* when both are numeric, whatever follows them; otherwise two or more DMS
\* matches give the DMS result; otherwise (empty text included) the result is
\* None, and None is returned in no other case.
C5_GrammarOrder ==
    fpc = "parsed" =>
        LET starts == TokenStarts(user_input)
            s1 == CHOOSE i \in starts : \A j \in starts : i <= j
            s2 == CHOOSE i \in starts \ {s1} : \A j \in starts \ {s1} : i <= j
            matches == findall(user_input)
        IN  IF Cardinality(starts) >= 2 /\ float(TokenAt(user_input, s1)).ok
                                       /\ float(TokenAt(user_input, s2)).ok
            THEN parsed = Pair(float(TokenAt(user_input, s1)).val,
                               float(TokenAt(user_input, s2)).val)
            ELSE IF Len(matches) >= 2
            THEN parsed = Pair(MatchValue(matches[1]), MatchValue(matches[2]))
            ELSE parsed = NonePair

\* C5 witness: in "1,-2 <group><group>" both grammars apply and the decimal
\* one wins, the tokens after the second being ignored
C5_Witness ==
    /\ fpc = "parsed"
    /\ user_input = <<"1", ",", "-", "2", " ">>
                       \o FormatDms([deg |-> 1, m |-> 30, t |-> 0, d |-> "S"])
                       \o FormatDms([deg |-> 31, m |-> 17, t |-> 46, d |-> "E"])
    /\ Len(findall(user_input)) = 2
    /\ parsed = Pair(Scale, -2 * Scale)

\* the value of a DMS group, from its components
GroupValue(g) ==
    LET v == g.deg * Scale + g.m * (Scale \div MinDiv) + g.t
    IN  IF g.d \in {"S", "W"} THEN -v ELSE v

\* texts made of two or three formatted groups, with the pair expected of them
RoundTrips ==
    { [text |-> FormatDms(g1) \o sep \o FormatDms(g2) \o rest,
       lat |-> GroupValue(g1), lon |-> GroupValue(g2)] :
          g1 \in DmsGroups, g2 \in DmsGroups, sep \in {<<>>, <<" ">>},
          rest \in {<<>>} \cup {FormatDms(g3) : g3 \in DmsGroups} }

\* C6: in the DMS grammar the first match is the latitude and the second the
\* longitude whatever their direction letters, each degrees + minutes/60 +
\* seconds/3600 negated exactly for S and W, and later matches are ignored.
C6_DmsPair ==
    fpc = "parsed" =>
        LET matches == findall(user_input)
        IN  /\ (~TwoNumericTokens(user_input) /\ Len(matches) >= 2)
                   => parsed = Pair(MatchValue(matches[1]), MatchValue(matches[2]))
            /\ \A r \in RoundTrips :
                   user_input = r.text => parsed = Pair(r.lat, r.lon)

\* C6 witness: 31deg17'4.6"E 91deg0'0.5"W 1deg30'0"S: the E group is the
\* latitude, the W group the negated longitude, the third group is ignored
C6_Witness ==
    /\ fpc = "parsed"
    /\ user_input = FormatDms([deg |-> 31, m |-> 17, t |-> 46, d |-> "E"]) \o <<" ">>
                       \o FormatDms([deg |-> 91, m |-> 0, t |-> 5, d |-> "W"])
                       \o FormatDms([deg |-> 1, m |-> 30, t |-> 0, d |-> "S"])
    /\ parsed = Pair(1126246, -3276005)

\* ------------------------------------------------------------- SpecRing
\* build_safe_polygon, and close_ring twice, applied to every sequence of at
\* most MaxPts points of the 3 x 3 grid.

MaxPts == 4

Grid == {<<a, b>> : a \in 0..2, b \in 0..2}

RECURSIVE PointSeqs(_)
PointSeqs(k) ==
    IF k = 0 THEN {<<>>}
    ELSE LET shorter == PointSeqs(k - 1)
         IN  shorter \cup {Append(q, g) : q \in {x \in shorter : Len(x) = k - 1}, g \in Grid}

RingInit ==
    /\ points \in PointSeqs(MaxPts)
    /\ ordered = <<>> /\ ring = <<>> /\ ring2 = <<>> /\ poly = UnsetPoly
    /\ fpc = "input"
    /\ user_input = <<>> /\ parsed = UnsetPair
    /\ points_file = <<>> /\ pc = "off" /\ pts_df = <<>>
    /\ sub_poly = UnsetPoly /\ sub_ring = <<>> /\ main_poly = UnsetPoly /\ main_ring = <<>>
    /\ search_result = AbsentResult /\ input_coords = <<>> /\ inside = UnsetBool
    /\ warning = None /\ first_registry = NoRegistry

\* order_points_by_angle(points) returns
Order ==
    /\ fpc = "input"
    /\ ~order_raises(points)
    /\ \E o \in order_points_by_angle(points) : ordered' = o
    /\ fpc' = "ordered"
    /\ UNCHANGED <<scriptVars, user_input, parsed, points, ring, ring2, poly>>

\* build_safe_polygon(points) returns or raises
Build ==
    /\ fpc = "input"
    /\ \E b \in build_safe_polygon(points) : poly' = b.poly /\ ring' = b.ring
    /\ fpc' = "built"
    /\ UNCHANGED <<scriptVars, user_input, parsed, points, ordered, ring2>>

\* close_ring(points)
Close ==
    /\ fpc = "input"
    /\ ring' = close_ring(points)
    /\ fpc' = "closed"
    /\ UNCHANGED <<scriptVars, user_input, parsed, points, ordered, ring2, poly>>

\* close_ring applied to the ring close_ring returned
CloseAgain ==
    /\ fpc = "closed"
    /\ ring2' = close_ring(ring)
    /\ fpc' = "closed2"
    /\ UNCHANGED <<scriptVars, user_input, parsed, points, ordered, ring, poly>>

RingNext == Order \/ Build \/ Close \/ CloseAgain

SpecRing == RingInit /\ [][RingNext]_vars

\* ---- C9: close_ring

\* C9: close_ring applied to the ring close_ring returned gives that ring
\* again, for every sequence of points, the empty and the one-point included.
C9_CloseIdempotent == fpc = "closed2" => ring2 = ring

\* C9 witness: the first call appended the first point, the second did not
C9_Witness ==
    /\ fpc = "closed2"
    /\ Len(points) >= 2
    /\ points[1] # points[Len(points)]
    /\ ring = Append(points, points[1])
    /\ ring2 = ring

\* ---- C7: order_points_by_angle

Count(q, x) == Cardinality({i \in 1..Len(q) : q[i] = x})
IsPermutationOf(q, r) ==
    /\ Len(q) = Len(r)
    /\ \A i \in 1..Len(r) : Count(q, r[i]) = Count(r, r[i])

SameAngle(pts, a, b) ==
    /\ ~AngleLess(FromCenter(pts, a), FromCenter(pts, b))
    /\ ~AngleLess(FromCenter(pts, b), FromCenter(pts, a))

\* the stable sort by angle: point i comes before point j when its angle is
\* smaller, or equal with i < j
StableOrder(pts) ==
    LET Before(i, j) ==
            \/ AngleLess(FromCenter(pts, pts[i]), FromCenter(pts, pts[j]))
            \/ SameAngle(pts, pts[i], pts[j]) /\ i < j
        Rank(i) == 1 + Cardinality({j \in 1..Len(pts) : Before(j, i)})
    IN  [k \in 1..Len(pts) |-> pts[CHOOSE i \in 1..Len(pts) : Rank(i) = k]]

\* C7 as claimed: the result is the stable sort of the input by angle
\* (points of equal angle keep their input order).
C7_StableSort == fpc = "ordered" => ordered = StableOrder(points)

\* C7 as amended: the result is a permutation of the input in which the
\* angle about the centroid never decreases.
C7_SortedPermutation ==
    fpc = "ordered" =>
        /\ IsPermutationOf(ordered, points)
        /\ \A i \in 1..(Len(ordered) - 1) :
               ~AngleLess(FromCenter(points, ordered[i + 1]),
                          FromCenter(points, ordered[i]))

\* C7 witness: four points not on a line, two of them, (1,1) at the centroid
\* and (1,2), with equal angle 0; they come out in the reverse of the input order
C7_Witness ==
    /\ fpc = "ordered"
    /\ points = <<<<1, 1>>, <<1, 2>>, <<0, 0>>, <<2, 1>>>>
    /\ ordered = <<<<0, 0>>, <<1, 2>>, <<1, 1>>, <<2, 1>>>>

\* ---- C4: degenerate vertex groups

DistinctPoints(pts) == {pts[i] : i \in 1..Len(pts)}
Degenerate(pts) == Cardinality(DistinctPoints(pts)) < 3 \/ AllColinear(pts)

\* C4 as claimed: for every degenerate vertex group build_safe_polygon
\* returns None as the region.
C4_DegenerateReturnsNone ==
    (fpc = "built" /\ Degenerate(points)) => poly = NoPoly

\* what does hold: a degenerate group never yields a region
DegenerateNeverRegion ==
    (fpc = "built" /\ Degenerate(points)) => poly.st \in {None, Raised}

\* ----------------------------------------------------------------- Spec

\* The tables of the model have no two points of equal angle, so that each
\* has one ordering (numpy's choice among equal angles is fixed within a
\* process; SpecRing covers the orderings it may choose).

\* a row of the points table, at 30deg43'n"N 31deg17'e"E
Row(id, n, e) ==
    [Point |-> id, East_D |-> 31, East_M |-> 17, East_S |-> e,
     North_D |-> 30, North_M |-> 43, North_S |-> n]

SquareSub == <<Row(3, 0, 2), Row(1, 0, 0), Row(4, 2, 0), Row(2, 2, 2)>>
TriangleMain == <<Row(5, 4, 4), Row(7, 8, 4), Row(6, 4, 8)>>
TableA == Table(TRUE, SquareSub \o TriangleMain)
TableB == Table(TRUE, <<Row(1, 0, 0), Row(2, 0, 2), Row(3, 2, 0),
                        Row(5, 0, 0), Row(6, 0, 8), Row(7, 8, 0)>>)
TableLineMain == Table(TRUE, SquareSub \o <<Row(5, 4, 4), Row(6, 4, 5), Row(7, 4, 6)>>)
TableLineSub == Table(TRUE, <<Row(1, 0, 0), Row(2, 1, 1), Row(3, 2, 2)>> \o TriangleMain)
TableNoMain == Table(TRUE, SquareSub)
TableOneSub == Table(TRUE, <<Row(1, 0, 0)>> \o TriangleMain)
TableNoColumns == Table(FALSE, SquareSub \o TriangleMain)

Disks ==
    { Disk(Absent, Absent), Disk(TableA, Absent), Disk(TableB, Absent),
      Disk(TableLineMain, Absent), Disk(TableLineSub, Absent),
      Disk(TableNoMain, Absent), Disk(TableOneSub, Absent),
      Disk(TableNoColumns, Absent), Disk(Absent, TableB), Disk(TableA, TableB) }

\* what the user may type into the text widget
Dms(n, e) ==
    FormatDms([deg |-> 30, m |-> 43, t |-> n, d |-> "N"]) \o <<" ">>
        \o FormatDms([deg |-> 31, m |-> 17, t |-> e, d |-> "E"])
QueryTexts ==
    { <<>>, <<"x">>,
      Dms(0, 0), Dms(10, 10), Dms(0, 10), Dms(50, 50), Dms(30, 30), Dms(60, 60),
      <<"3", "0", ".", "7", ",", " ", "3", "1", ".", "2">>,
      <<"9", "0", ",", "1", "8", "0">>,
      <<"9", "1", ",", "0">>, <<"0", ",", "1", "8", "1">>, <<"-", "9", "1", " ", "0">> }

\* what get_geolocation may return: nothing, or coordinates in 1/10000 degree
Locations == {<<307167, 312834>>, <<307001, 312001>>}

Init ==
    /\ points_file \in Disks
    /\ pc = "idle"
    /\ pts_df = <<>>
    /\ sub_poly = UnsetPoly /\ sub_ring = <<>> /\ main_poly = UnsetPoly /\ main_ring = <<>>
    /\ search_result = AbsentResult
    /\ input_coords = <<>>
    /\ user_input = <<>> /\ parsed = UnsetPair /\ inside = UnsetBool /\ warning = None
    /\ first_registry = NoRegistry
    /\ points = <<>> /\ ordered = <<>> /\ ring = <<>> /\ ring2 = <<>> /\ poly = UnsetPoly
    /\ fpc = "off"

RunOver == pc \in {"idle", "done", "stopped", "crashed"}

\* the points file is replaced on disk; the script reads it once per run,
\* at line 156, so a change during a run acts as a change after it
ChangeFile ==
    /\ RunOver
    /\ points_file' \in Disks \ {points_file}
    /\ UNCHANGED <<pc, pts_df, sub_poly, sub_ring, main_poly, main_ring, search_result,
                   input_coords, user_input, parsed, inside, warning, first_registry,
                   ringVars, fpc>>

\* lines 1-32: an interaction starts a run in a fresh namespace; the text
\* widget's value is what the user typed, if anything
StartRun ==
    /\ RunOver
    /\ pc' = "start"
    /\ search_result' = IF search_result = AbsentResult THEN NoneResult ELSE search_result
    /\ \E t \in QueryTexts \cup {input_coords} : input_coords' = t
    /\ pts_df' = <<>>
    /\ sub_poly' = UnsetPoly /\ sub_ring' = <<>>
    /\ main_poly' = UnsetPoly /\ main_ring' = <<>>
    /\ user_input' = <<>> /\ parsed' = UnsetPair /\ inside' = UnsetBool /\ warning' = None
    /\ UNCHANGED <<points_file, first_registry, ringVars, fpc>>

\* lines 156-165
LoadPoints ==
    /\ pc = "start"
    /\ LET df_raw == load_points_file(points_file)
       IN  IF ~df_raw.exists \/ ~df_raw.cols
           THEN pc' = "stopped" /\ pts_df' = pts_df
           ELSE pc' = "loaded" /\ pts_df' \in df_to_latlon(df_raw)
    /\ UNCHANGED <<points_file, sub_poly, sub_ring, main_poly, main_ring, search_result,
                   input_coords, user_input, parsed, inside, warning, first_registry,
                   ringVars, fpc>>

\* lines 167-179: an exception of the first build ends the run before the second
BuildRegistry ==
    /\ pc = "loaded"
    /\ \E sb \in build_safe_polygon(sub_points(pts_df)) :
          IF sb.poly.st = Raised
          THEN /\ pc' = "crashed"
               /\ UNCHANGED <<sub_poly, sub_ring, main_poly, main_ring>>
          ELSE /\ sub_poly' = sb.poly /\ sub_ring' = sb.ring
               /\ \E mb \in build_safe_polygon(main_points(pts_df)) :
                     IF mb.poly.st = Raised
                     THEN pc' = "crashed" /\ UNCHANGED <<main_poly, main_ring>>
                     ELSE /\ main_poly' = mb.poly /\ main_ring' = mb.ring
                          /\ pc' = IF RegistryFailed(sb.poly, mb.poly)
                                   THEN "stopped" ELSE "built"
    /\ UNCHANGED <<points_file, pts_df, search_result, input_coords, user_input, parsed,
                   inside, warning, first_registry, ringVars, fpc>>

\* lines 190-198: a location overwrites the text widget's value; no location,
\* or an exception of the component, leaves it
Locate ==
    /\ pc = "built"
    /\ \/ input_coords' = input_coords
       \/ \E loc \in Locations : input_coords' = FormatLocation(loc)
    /\ pc' = "located"
    /\ UNCHANGED <<points_file, pts_df, sub_poly, sub_ring, main_poly, main_ring,
                   search_result, user_input, parsed, inside, warning, first_registry,
                   ringVars, fpc>>

\* line 202
TextInput ==
    /\ pc = "located"
    /\ user_input' = input_coords
    /\ pc' = "input"
    /\ UNCHANGED <<points_file, pts_df, sub_poly, sub_ring, main_poly, main_ring,
                   search_result, input_coords, parsed, inside, warning, first_registry,
                   ringVars, fpc>>

\* line 204 when the button was not pressed
NoButton ==
    /\ pc = "input"
    /\ pc' = "handled"
    /\ UNCHANGED <<points_file, pts_df, sub_poly, sub_ring, main_poly, main_ring,
                   search_result, input_coords, user_input, parsed, inside, warning,
                   first_registry, ringVars, fpc>>

\* lines 204-217 when the button was pressed
Button_MutKeepStale ==
    /\ pc = "input"
    /\ pc' = "handled"
    /\ parsed' = parse_decimal_or_dms_text(user_input)
    /\ IF parsed'.st = None
       THEN /\ warning' = "parse"
            /\ UNCHANGED <<search_result, inside, first_registry>>
       ELSE IF ~InRange(parsed'.lat, parsed'.lon)
       THEN /\ warning' = "range"
            /\ search_result' = NoneResult
            /\ UNCHANGED <<inside, first_registry>>
       ELSE /\ inside' = Bool(ContainmentTest(sub_poly, main_poly,
                                               <<parsed'.lat, parsed'.lon>>))
            /\ search_result' = Result(parsed'.lat, parsed'.lon, inside'.val)
            /\ first_registry' = IF first_registry.set THEN first_registry
                                 ELSE Registry(sub_poly, main_poly)
            /\ UNCHANGED warning
    /\ UNCHANGED <<points_file, pts_df, sub_poly, sub_ring, main_poly, main_ring,
                   input_coords, user_input, ringVars, fpc>>

Button ==
    /\ pc = "input"
    /\ pc' = "handled"
    /\ parsed' = parse_decimal_or_dms_text(user_input)
    /\ IF parsed'.st = None
       THEN /\ warning' = "parse"
            /\ search_result' = NoneResult
            /\ UNCHANGED <<inside, first_registry>>
       ELSE IF ~InRange(parsed'.lat, parsed'.lon)
       THEN /\ warning' = "range"
            /\ search_result' = NoneResult
            /\ UNCHANGED <<inside, first_registry>>
       ELSE /\ inside' = Bool(ContainmentTest(sub_poly, main_poly,
                                               <<parsed'.lat, parsed'.lon>>))
            /\ search_result' = Result(parsed'.lat, parsed'.lon, inside'.val)
            /\ first_registry' = IF first_registry.set THEN first_registry
                                 ELSE Registry(sub_poly, main_poly)
            /\ UNCHANGED warning
    /\ UNCHANGED <<points_file, pts_df, sub_poly, sub_ring, main_poly, main_ring,
                   input_coords, user_input, ringVars, fpc>>

\* lines 222-281: the result, the map and the debug expander read the state
Render_MutRecloseRing ==
    /\ pc = "handled"
    /\ pc' = "done"
    /\ sub_ring' = close_ring_MutAlwaysAppend(sub_ring)
    /\ main_ring' = close_ring_MutAlwaysAppend(main_ring)
    /\ UNCHANGED <<points_file, pts_df, sub_poly, main_poly,
                   search_result, input_coords, user_input, parsed, inside, warning,
                   first_registry, ringVars, fpc>>

Render ==
    /\ pc = "handled"
    /\ pc' = "done"
    /\ UNCHANGED <<points_file, pts_df, sub_poly, sub_ring, main_poly, main_ring,
                   search_result, input_coords, user_input, parsed, inside, warning,
                   first_registry, ringVars, fpc>>

Next ==
    \/ ChangeFile \/ StartRun \/ LoadPoints \/ BuildRegistry \/ Locate
    \/ TextInput \/ NoButton \/ Button \/ Render

Spec == Init /\ [][Next]_vars

\* ---- C1, C2, C3, C8, C10: the script run

WithinBounds(lat, lon) ==
    /\ lat >= 0 - LatMax * Scale /\ lat <= LatMax * Scale
    /\ lon >= 0 - LonMax * Scale /\ lon <= LonMax * Scale

\* p is inside the ring of the region or on one of its edges
InsideOrOnEdge(region, p) ==
    \/ \E i \in 1..(Len(region.ring) - 1) :
          OnSegment(p, region.ring[i], region.ring[i + 1])
    \/ Winding(region.ring, p, 1) # 0

Handled == pc \in {"handled", "done"}

\* C1: for a parsed query point within the ranges, the containment result
\* is true exactly when the point is inside or on the boundary of the sub
\* or of the main region, and that result is what is stored.
C1_Containment ==
    (Handled /\ parsed.st = "pair" /\ WithinBounds(parsed.lat, parsed.lon)) =>
        /\ inside.set
        /\ inside.val = (\E region \in {sub_poly, main_poly} :
                             InsideOrOnEdge(region, <<parsed.lat, parsed.lon>>))
        /\ search_result = Result(parsed.lat, parsed.lon, inside.val)

\* C1 witness: 30deg43'0"N 31deg17'1"E lies on an edge of the sub square and
\* in no interior; the result is true
C1_Witness ==
    /\ pc = "handled"
    /\ user_input = Dms(0, 10)
    /\ inside = Bool(TRUE)
    /\ ~StrictlyInside(sub_poly.ring, <<parsed.lat, parsed.lon>>)
    /\ ~InsideOrOnEdge(main_poly, <<parsed.lat, parsed.lon>>)

\* C2: a parsed query with the latitude outside [-90, 90] or the longitude
\* outside [-180, 180] gets the range warning, is not evaluated (inside is
\* never bound) and leaves no stored result.
C2_RangeRejected ==
    (Handled /\ parsed.st = "pair" /\ ~WithinBounds(parsed.lat, parsed.lon)) =>
        /\ warning = "range"
        /\ ~inside.set
        /\ search_result = NoneResult

\* C2 witness: "0,181", a valid latitude with a longitude out of range
C2_Witness ==
    /\ pc = "handled"
    /\ user_input = <<"0", ",", "1", "8", "1">>
    /\ parsed = Pair(0, 181 * Scale)
    /\ warning = "range"
    /\ search_result = NoneResult

\* a vertex group that yields no region, whatever the ordering
GroupFails(pts) == \A b \in build_safe_polygon(pts) : b.poly.st # "region"

\* C3: a run gets past the construction of the registry only if both vertex
\* groups produced a region; when a group fails the run halts, and a query
\* is evaluated only in a run whose two regions were built.
C3_FailFast ==
    /\ pc \in {"built", "located", "input", "handled", "done"} =>
          /\ ~GroupFails(sub_points(pts_df)) /\ ~GroupFails(main_points(pts_df))
          /\ sub_poly.st = "region" /\ main_poly.st = "region"
    /\ (inside.set \/ parsed # UnsetPair) => Handled
    /\ (sub_poly.st = None \/ main_poly.st = None \/ pc = "crashed") =>
          (pc \in {"stopped", "crashed"} /\ ~inside.set /\ parsed = UnsetPair)

\* C3 witness: the sub region was built, the main group (three points on a
\* line) gave None, and the run stopped without a query
C3_Witness ==
    /\ pc = "stopped"
    /\ sub_poly.st = "region"
    /\ main_poly.st = None
    /\ ~inside.set

\* C8 as claimed: every query of the process is answered against the same
\* regions (the registry is built once and no rerun changes it).
C8_SameRegionsForEveryQuery ==
    inside.set => first_registry = Registry(sub_poly, main_poly)

InRun == pc \in {"built", "located", "input", "handled"}

\* the registry is one that the points file, as the run read it, builds
BuiltFromFile ==
    /\ pts_df \in df_to_latlon(load_points_file(points_file))
    /\ \E sb \in build_safe_polygon(sub_points(pts_df)) :
          sub_poly = sb.poly /\ sub_ring = sb.ring
    /\ \E mb \in build_safe_polygon(main_points(pts_df)) :
          main_poly = mb.poly /\ main_ring = mb.ring

\* C8 as amended: every script run builds the registry from the points file
\* as it is at that run, and once the run has built it no later step of
\* that run (geolocation, text entry, button handler, rendering) changes a
\* region or a ring.
C8_ReadOnlyWithinRun ==
    /\ [](InRun => BuiltFromFile)
    /\ [][InRun => (/\ sub_poly' = sub_poly /\ sub_ring' = sub_ring
                    /\ main_poly' = main_poly /\ main_ring' = main_ring)]_vars

\* C8 witness: a query evaluated against regions other than those of the
\* first query of the process
C8_Witness ==
    /\ pc = "done"
    /\ inside.set
    /\ first_registry.set
    /\ first_registry # Registry(sub_poly, main_poly)

PressedStep == pc = "input" /\ pc' = "handled" /\ parsed' # UnsetPair

\* C10: once a run has started the stored search_result is None or a record
\* within the ranges; a record is stored only by a pressed button, with the
\* containment result against the regions of that run; a press with
\* unparseable or out-of-range input stores None; every other step leaves it
\* (the first run binds the missing key to None).
C10_StoredResult ==
    [][/\ pc' # "idle" => search_result'.st \in {None, "result"}
       /\ search_result'.st = "result" =>
              WithinBounds(search_result'.lat, search_result'.lon)
       /\ (search_result' # search_result /\ search_result'.st = "result") =>
              /\ PressedStep
              /\ search_result'.is_inside =
                     (\E region \in {sub_poly, main_poly} :
                         InsideOrOnEdge(region, <<search_result'.lat, search_result'.lon>>))
       /\ (PressedStep /\ (parsed'.st = None
                              \/ ~WithinBounds(parsed'.lat, parsed'.lon))) =>
              search_result' = NoneResult
       /\ ~PressedStep =>
              \/ search_result' = search_result
              \/ search_result = AbsentResult /\ search_result' = NoneResult
      ]_vars

\* C10 witness: a run without a press left a record that an earlier run
\* stored, whose is_inside is not the containment result against the
\* regions of this run
C10_Witness ==
    /\ pc = "done"
    /\ parsed = UnsetPair
    /\ search_result.st = "result"
    /\ search_result.is_inside
    /\ ~(\E region \in {sub_poly, main_poly} :
             InsideOrOnEdge(region, <<search_result.lat, search_result.lon>>))

====
